---- MODULE Spec2Model ----
(***************************************************************************)
(* Model of the aistm7_token Anchor program                                *)
(* (src/blockchain/programs/aistm7_token/src/lib.rs): the TokenState       *)
(* account at the PDA [b"token_state"], the three instructions initialize, *)
(* update_balance_requirement and verify_balance, the account constraints  *)
(* Anchor checks before each handler runs, and the event log.              *)
(*                                                                         *)
(* An instruction that returns Err is a failed transaction: the runtime    *)
(* discards every account write it made, so a failing step leaves the      *)
(* accounts and the log as they were.                                      *)
(***************************************************************************)
EXTENDS Integers, Sequences, FiniteSets, TLC

(***************************************************************************)
(* Bounds of the model.                                                    *)
(***************************************************************************)
\* the clock sysvar takes the values 0..MaxClock
MaxClock == 1
\* at most MaxEvents BalanceRequirementUpdated events are logged
MaxEvents == 2
\* at most MaxTx transactions are in flight at a time
MaxTx == 2

(***************************************************************************)
(* Inputs.                                                                 *)
(***************************************************************************)
\* signers of a transaction
Identities == {"A", "B"}
\* the all-zero Pubkey of a zeroed account
DefaultPubkey == "11111111"
\* addresses of mint accounts
MintKeys == {"m1", "m2"}
\* the address of the mint account handed to initialize
NewMintKeys == {"m1"}
\* initial_supply arguments
Supplies == {0, 1000}
\* i64 prices a Pyth feed may report (USD micros per token)
Prices == {-1, 0, 1, 10000, 20000, 148514, 1000000}
\* amounts of the token accounts handed to verify_balance
Balances == {99, 100, 750}

\* Option<T>
None == [some |-> FALSE, val |-> 0]
Some(v) == [some |-> TRUE, val |-> v]

\* a price feed account: valid = load_price_feed_from_account_info succeeds,
\* price = what get_current_price() returns
Feeds ==
    {[valid |-> FALSE, price |-> None], [valid |-> TRUE, price |-> None]}
        \cup {[valid |-> TRUE, price |-> Some(p)] : p \in Prices}

\* a token account of the SPL token program
TokenAccounts == [mint : MintKeys, amount : Balances]

(***************************************************************************)
(* A u64 that may reach 2^31 and beyond is four 16-bit words, most        *)
(* significant first.                                                      *)
(***************************************************************************)
Word == 65536

\* the u64 of a natural number below 2^31
ToU64(n) == <<0, 0, n \div Word, n % Word>>

ZeroU64 == ToU64(0)

\* the magnitude of the i64 (unsigned_abs) instead of its reinterpretation
AsU64Abs(p) == IF p >= 0 THEN ToU64(p) ELSE ToU64(-p)

\* `price as u64` of an i64: the two's complement reinterpretation
AsU64(p) ==
    IF p >= 0
    THEN ToU64(p)
    ELSE LET q == (-p) - 1
         IN  <<Word - 1, Word - 1, (Word - 1) - (q \div Word), (Word - 1) - (q % Word)>>

\* does the u64 fit below 2^31
FitsInt(w) == w[1] = 0 /\ w[2] = 0 /\ w[3] < Word \div 2

\* checked_div with the zero divisor answered by zero instead of None
checked_div_or_zero(a, b) ==
    IF b = ZeroU64
    THEN Some(0)
    ELSE IF FitsInt(b)
         THEN Some(a \div (b[3] * Word + b[4]))
         ELSE Some(0)

\* u64::checked_div of a (below 2^31) by the u64 b: None on a zero divisor
checked_div(a, b) ==
    IF b = ZeroU64
    THEN None
    ELSE IF FitsInt(b)
         THEN Some(a \div (b[3] * Word + b[4]))
         ELSE Some(0)

Max(a, b) == IF a >= b THEN a ELSE b
Min(a, b) == IF a <= b THEN a ELSE b
Abs(a) == IF a >= 0 THEN a ELSE -a

\* division rounding toward minus infinity instead of toward zero
FloorDiv(a, b) == a \div b

\* i128 division, which truncates toward zero (b > 0 here)
TruncDiv(a, b) == IF a >= 0 THEN a \div b ELSE -((-a) \div b)

(***************************************************************************)
(* The state of the program.                                               *)
(***************************************************************************)
VARIABLES
    state,                    \* the TokenState account at the PDA
    authority_token_account,  \* the token account initialize mints to
    events,                   \* the log of BalanceRequirementUpdated events
    clock,                    \* Clock::get()?.unix_timestamp
    last,                     \* the instruction just executed: its inputs, the
                              \* accounts, log and clock it ran on, its result
    txs                       \* the transactions in flight, each at a step of
                              \* its handler

vars == <<state, authority_token_account, events, clock, last, txs>>

\* the account before `init`: no discriminator, zeroed data
ZeroedState ==
    [discriminator |-> FALSE,
     authority |-> DefaultPubkey,
     mint |-> DefaultPubkey,
     target_usd_value |-> 0,
     min_tokens |-> 0,
     max_tokens |-> 0,
     current_requirement |-> 0,
     last_update |-> 0]

NoTokenAccount == [exists |-> FALSE, mint |-> DefaultPubkey, owner |-> DefaultPubkey, amount |-> 0]

NoFeed == [valid |-> FALSE, price |-> None]
NoArg == [mint |-> DefaultPubkey, amount |-> 0]

NoCall ==
    [op |-> "none", caller |-> DefaultPubkey, feed |-> NoFeed, account |-> NoArg,
     supply |-> 0, result |-> "none", value |-> FALSE,
     pre |-> ZeroedState, pre_token_account |-> NoTokenAccount, pre_events |-> <<>>,
     now |-> 0]

\* the record of a call on the present accounts, log and clock
Call(op) ==
    [NoCall EXCEPT !.op = op, !.pre = state,
                   !.pre_token_account = authority_token_account,
                   !.pre_events = events, !.now = clock]

\* the transactions that may be in flight
Tx == 1..MaxTx

\* a slot without a transaction
IdleTx ==
    [pc |-> "idle", op |-> "none", feed |-> NoFeed, account |-> NoArg, result |-> "none",
     price |-> ZeroU64, new_requirement |-> 0,
     seen |-> [current_requirement |-> 0, last_update |-> 0], value |-> FALSE]

Init ==
    /\ state = ZeroedState
    /\ authority_token_account = NoTokenAccount
    /\ events = <<>>
    /\ clock = 0
    /\ last = NoCall
    /\ txs = [t \in Tx |-> IdleTx]

(***************************************************************************)
(* initialize                                                              *)
(***************************************************************************)
\* init_if_needed instead of init: an existing account is taken as it is
InitIfNeeded(st) ==
    IF st.discriminator
    THEN [result |-> "Ok", state |-> st]
    ELSE [result |-> "Ok", state |-> [ZeroedState EXCEPT !.discriminator = TRUE]]

\* `init` on the state account: creating the account at the PDA fails when
\* one is already there
InitState(st) ==
    IF st.discriminator
    THEN [result |-> "AccountAlreadyInUse", state |-> st]
    ELSE [result |-> "Ok", state |-> [ZeroedState EXCEPT !.discriminator = TRUE]]

\* the initial parameters without the seed of current_requirement
InitialParametersNoSeed(st, authority, mint) ==
    [st EXCEPT !.authority = authority,
               !.mint = mint,
               !.target_usd_value = 15000000,
               !.min_tokens = 100,
               !.max_tokens = 10000]

\* "Set initial parameters"
InitialParameters(st, authority, mint) ==
    [st EXCEPT !.authority = authority,
               !.mint = mint,
               !.target_usd_value = 15000000,
               !.min_tokens = 100,
               !.max_tokens = 10000,
               !.current_requirement = 750]

\* token::mint_to into the token account `init` created for the authority
MintTo(authority, mint, amount) ==
    [exists |-> TRUE, mint |-> mint, owner |-> authority, amount |-> amount]

\* The handler, on the accounts the Initialize constraints created.
\* mint_ok, mint_to_ok: whether the two CPIs into the token program succeed.
initialize(st, authority, mint, initial_supply, mint_ok, mint_to_ok) ==
    IF ~mint_ok
    THEN [result |-> "InitializeMintFailed", state |-> st, token_account |-> NoTokenAccount]
    ELSE LET st1 == InitialParameters(st, authority, mint)
         IN  IF ~mint_to_ok
             THEN [result |-> "MintToFailed", state |-> st1,
                   token_account |-> NoTokenAccount]
             ELSE [result |-> "Ok", state |-> st1,
                   token_account |-> MintTo(authority, mint, initial_supply)]

\* the instruction on a store that keeps the writes of a failed handler
InitializeNoRollback(caller, mint, initial_supply, mint_ok, mint_to_ok) ==
    LET created == InitState(state)
        out == initialize(created.state, caller, mint, initial_supply, mint_ok, mint_to_ok)
        result == IF created.result # "Ok" THEN created.result ELSE out.result
    IN  /\ state' = IF created.result = "Ok" THEN out.state ELSE state
        /\ authority_token_account' =
               IF result = "Ok" THEN out.token_account ELSE authority_token_account
        /\ last' = [Call("initialize") EXCEPT !.caller = caller,
                                  !.account = [mint |-> mint, amount |-> 0],
                                  !.supply = initial_supply, !.result = result]
        /\ UNCHANGED <<events, clock, txs>>

\* The instruction; a failed transaction writes nothing.
Initialize(caller, mint, initial_supply, mint_ok, mint_to_ok) ==
    LET created == InitState(state)
        out == initialize(created.state, caller, mint, initial_supply, mint_ok, mint_to_ok)
        result == IF created.result # "Ok" THEN created.result ELSE out.result
    IN  /\ state' = IF result = "Ok" THEN out.state ELSE state
        /\ authority_token_account' =
               IF result = "Ok" THEN out.token_account ELSE authority_token_account
        /\ last' = [Call("initialize") EXCEPT !.caller = caller,
                                  !.account = [mint |-> mint, amount |-> 0],
                                  !.supply = initial_supply, !.result = result]
        /\ UNCHANGED <<events, clock, txs>>

(***************************************************************************)
(* update_balance_requirement                                              *)
(***************************************************************************)
\* a missing price taken as the default price instead of NoPriceFound
LoadPriceOrDefault(feed) ==
    IF ~feed.valid
    THEN [result |-> "PythError", price |-> ZeroU64]
    ELSE IF ~feed.price.some
    THEN [result |-> "Ok", price |-> ZeroU64]
    ELSE [result |-> "Ok", price |-> AsU64(feed.price.val)]

\* "Get current price from Pyth": the feed account is loaded, the price is
\* taken or NoPriceFound, and the i64 is cast to u64
LoadPrice(feed) ==
    IF ~feed.valid
    THEN [result |-> "PythError", price |-> ZeroU64]
    ELSE IF ~feed.price.some
    THEN [result |-> "NoPriceFound", price |-> ZeroU64]
    ELSE [result |-> "Ok", price |-> AsU64(feed.price.val)]

\* the bounds without the upper one
ClampNoUpper(st, raw) == Max(st.min_tokens, raw)

\* "Apply min/max bounds"
Clamp(st, raw) == Max(st.min_tokens, Min(st.max_tokens, raw))

\* the change taken relative to the new requirement instead of the stored one
RequirementChangeOfNew(st, new_requirement) ==
    IF st.current_requirement > 0
    THEN TruncDiv((new_requirement - st.current_requirement) * 100, new_requirement)
    ELSE 100

\* requirement_change; the i128 checked_div cannot fail, its divisor being
\* a positive u64
RequirementChange(st, new_requirement) ==
    IF st.current_requirement > 0
    THEN TruncDiv((new_requirement - st.current_requirement) * 100, st.current_requirement)
    ELSE 100

\* every change, also none, counted as significant
SignificantAlways(requirement_change) == TRUE

\* a change of exactly 1% not counted as significant
SignificantAbove(requirement_change) == Abs(requirement_change) > 1

\* "Update only if change is significant"
Significant(requirement_change) == Abs(requirement_change) >= 1

\* the new requirement written into min_tokens instead of current_requirement
CommitWrongField(st, new_requirement, now) ==
    [st EXCEPT !.min_tokens = new_requirement, !.last_update = now]

\* the time elapsed since the last update stored instead of the clock
CommitElapsed(st, new_requirement, now) ==
    [st EXCEPT !.current_requirement = new_requirement, !.last_update = now - st.last_update]

\* the two writes of a significant change
Commit(st, new_requirement, now) ==
    [st EXCEPT !.current_requirement = new_requirement, !.last_update = now]

\* the handler with the timestamp written on every successful call
update_balance_requirement_touch(st, feed, now, evs) ==
    LET loaded == LoadPrice(feed)
        current_price == loaded.price
        quotient == checked_div(st.target_usd_value, current_price)
    IN  IF loaded.result # "Ok"
        THEN [result |-> loaded.result, state |-> st, events |-> evs]
        ELSE IF ~quotient.some
        THEN [result |-> "MathOverflow", state |-> st, events |-> evs]
        ELSE LET new_requirement == Clamp(st, quotient.val)
             IN  IF Significant(RequirementChange(st, new_requirement))
                 THEN LET st1 == Commit(st, new_requirement, now)
                      IN  [result |-> "Ok",
                           state |-> st1,
                           events |-> Append(evs, [new_requirement |-> new_requirement,
                                                   price |-> current_price,
                                                   timestamp |-> st1.last_update])]
                 ELSE [result |-> "Ok", state |-> [st EXCEPT !.last_update = now],
                       events |-> evs]

\* the handler with emit! after the if instead of inside it
update_balance_requirement_emit(st, feed, now, evs) ==
    LET loaded == LoadPrice(feed)
        current_price == loaded.price
        quotient == checked_div(st.target_usd_value, current_price)
    IN  IF loaded.result # "Ok"
        THEN [result |-> loaded.result, state |-> st, events |-> evs]
        ELSE IF ~quotient.some
        THEN [result |-> "MathOverflow", state |-> st, events |-> evs]
        ELSE LET new_requirement == Clamp(st, quotient.val)
                 st1 == IF Significant(RequirementChange(st, new_requirement))
                        THEN Commit(st, new_requirement, now)
                        ELSE st
             IN  [result |-> "Ok",
                  state |-> st1,
                  events |-> Append(evs, [new_requirement |-> new_requirement,
                                          price |-> current_price,
                                          timestamp |-> st1.last_update])]

\* The handler, on the state account st, the price feed account feed, the
\* clock now and the log evs.
update_balance_requirement(st, feed, now, evs) ==
    LET loaded == LoadPrice(feed)
        current_price == loaded.price
        quotient == checked_div(st.target_usd_value, current_price)
    IN  IF loaded.result # "Ok"
        THEN [result |-> loaded.result, state |-> st, events |-> evs]
        ELSE IF ~quotient.some
        THEN [result |-> "MathOverflow", state |-> st, events |-> evs]
        ELSE LET new_requirement == Clamp(st, quotient.val)
             IN  IF Significant(RequirementChange(st, new_requirement))
                 THEN LET st1 == Commit(st, new_requirement, now)
                      IN  [result |-> "Ok",
                           state |-> st1,
                           events |-> Append(evs, [new_requirement |-> new_requirement,
                                                   price |-> current_price,
                                                   timestamp |-> st1.last_update])]
                 ELSE [result |-> "Ok", state |-> st, events |-> evs]

\* the constraints without has_one = authority
UpdateConstraintsNoHasOne(st, caller) ==
    IF ~st.discriminator
    THEN "AccountNotInitialized"
    ELSE "Ok"

\* The UpdateBalanceRequirement constraints: the state account exists and
\* has_one = authority.
UpdateConstraints(st, caller) ==
    IF ~st.discriminator
    THEN "AccountNotInitialized"
    ELSE IF st.authority # caller
    THEN "ConstraintHasOne"
    ELSE "Ok"

\* The instruction; a failed transaction writes nothing and logs nothing.
UpdateBalanceRequirement(caller, feed) ==
    LET checked == UpdateConstraints(state, caller)
        out == update_balance_requirement(state, feed, clock, events)
        result == IF checked # "Ok" THEN checked ELSE out.result
    IN  /\ result = "Ok" => Len(out.events) <= MaxEvents
        /\ state' = IF result = "Ok" THEN out.state ELSE state
        /\ events' = IF result = "Ok" THEN out.events ELSE events
        /\ last' = [Call("update") EXCEPT !.caller = caller, !.feed = feed,
                                  !.result = result]
        /\ UNCHANGED <<authority_token_account, clock, txs>>

(***************************************************************************)
(* verify_balance                                                          *)
(***************************************************************************)
\* > instead of >=
verify_balance_strict(st, token_account) == token_account.amount > st.current_requirement

\* The handler: Ok(token_account.amount >= state.current_requirement)
verify_balance(st, token_account) == token_account.amount >= st.current_requirement

\* the constraints without token_account.mint == state.mint
VerifyConstraintsNoMint(st, token_account) ==
    IF ~st.discriminator
    THEN "AccountNotInitialized"
    ELSE "Ok"

\* The VerifyBalance constraints: the state account exists and
\* token_account.mint == state.mint.
VerifyConstraints(st, token_account) ==
    IF ~st.discriminator
    THEN "AccountNotInitialized"
    ELSE IF token_account.mint # st.mint
    THEN "ConstraintRaw"
    ELSE "Ok"

\* verify_balance recording the time of the check in the state
VerifyBalanceTouch(token_account) ==
    LET result == VerifyConstraints(state, token_account)
    IN  /\ last' = [Call("verify") EXCEPT
                                  !.account = token_account, !.result = result,
                                  !.value = IF result = "Ok"
                                            THEN verify_balance(state, token_account)
                                            ELSE FALSE]
        /\ state' = IF result = "Ok" THEN [state EXCEPT !.last_update = clock] ELSE state
        /\ UNCHANGED <<authority_token_account, events, clock, txs>>

\* The instruction: the handler reads the two accounts and writes nothing.
VerifyBalance(token_account) ==
    LET result == VerifyConstraints(state, token_account)
    IN  /\ last' = [Call("verify") EXCEPT
                                  !.account = token_account, !.result = result,
                                  !.value = IF result = "Ok"
                                            THEN verify_balance(state, token_account)
                                            ELSE FALSE]
        /\ UNCHANGED <<state, authority_token_account, events, clock, txs>>

(***************************************************************************)
(* The clock sysvar advances between transactions.                         *)
(***************************************************************************)
Tick ==
    /\ clock < MaxClock
    /\ clock' = clock + 1
    /\ last' = NoCall
    /\ UNCHANGED <<state, authority_token_account, events, txs>>

Next ==
    \/ \E caller \in Identities, mint \in NewMintKeys, initial_supply \in Supplies,
          mint_ok \in BOOLEAN, mint_to_ok \in BOOLEAN :
           Initialize(caller, mint, initial_supply, mint_ok, mint_to_ok)
    \/ \E caller \in Identities, feed \in Feeds : UpdateBalanceRequirement(caller, feed)
    \/ \E token_account \in TokenAccounts : VerifyBalance(token_account)
    \/ Tick

Spec == Init /\ [][Next]_vars

(***************************************************************************)
(* The instructions as transactions in flight.  A transaction names its    *)
(* accounts and the runtime locks them before it runs: the state account   *)
(* is writable (mut) in UpdateBalanceRequirement and Initialize, read-only *)
(* in VerifyBalance.  The handler then reads and writes the account data   *)
(* one statement at a time.                                                *)
(***************************************************************************)
\* feeds and token accounts of the transactions in flight
TxFeeds ==
    {[valid |-> TRUE, price |-> None],
     [valid |-> TRUE, price |-> Some(10000)],
     [valid |-> TRUE, price |-> Some(1000000)]}
TxTokenAccounts == {[mint |-> "m1", amount |-> 750], [mint |-> "m2", amount |-> 750]}

\* a writable account is locked without regard to the transactions in flight
WriteLockAlways(t) == TRUE

\* the lock of a writable state account: no other transaction holds it
WriteLockFree(t) == \A u \in Tx \ {t} : txs[u].pc = "idle"

\* the lock of a read-only state account: no other transaction writes it
ReadLockFree(t) == \A u \in Tx \ {t} : txs[u].pc = "idle" \/ txs[u].op = "verify"

\* initialize, which creates the state account, runs with no other
\* transaction on that account
TxInitialize(caller, mint, initial_supply, mint_ok, mint_to_ok) ==
    /\ \A u \in Tx : txs[u].pc = "idle"
    /\ Initialize(caller, mint, initial_supply, mint_ok, mint_to_ok)

\* update_balance_requirement: the accounts are locked and the
\* UpdateBalanceRequirement constraints checked
BeginUpdate(t, caller, feed) ==
    LET checked == UpdateConstraints(state, caller)
    IN  /\ txs[t].pc = "idle"
        /\ WriteLockFree(t)
        /\ txs' = [txs EXCEPT ![t] =
                       [IdleTx EXCEPT !.op = "update", !.feed = feed, !.result = checked,
                                      !.pc = IF checked = "Ok" THEN "loaded" ELSE "done"]]
        /\ UNCHANGED <<state, authority_token_account, events, clock, last>>

\* the price is loaded from the feed
FetchPrice(t) ==
    LET loaded == LoadPrice(txs[t].feed)
    IN  /\ txs[t].pc = "loaded"
        /\ txs' = [txs EXCEPT ![t].price = loaded.price,
                              ![t].result = loaded.result,
                              ![t].pc = IF loaded.result = "Ok" THEN "priced" ELSE "done"]
        /\ UNCHANGED <<state, authority_token_account, events, clock, last>>

\* the new requirement and its change are computed from the state account
Compute(t) ==
    LET quotient == checked_div(state.target_usd_value, txs[t].price)
        new_requirement == Clamp(state, quotient.val)
        significant == Significant(RequirementChange(state, new_requirement))
    IN  /\ txs[t].pc = "priced"
        /\ (quotient.some /\ significant) => Len(events) < MaxEvents
        /\ txs' = [txs EXCEPT ![t].new_requirement =
                                  IF quotient.some THEN new_requirement ELSE 0,
                              ![t].result =
                                  IF quotient.some THEN "Ok" ELSE "MathOverflow",
                              ![t].pc = IF quotient.some /\ significant
                                        THEN "write_requirement"
                                        ELSE "done"]
        /\ UNCHANGED <<state, authority_token_account, events, clock, last>>

\* state.current_requirement = new_requirement
WriteRequirement(t) ==
    /\ txs[t].pc = "write_requirement"
    /\ state' = [state EXCEPT !.current_requirement = txs[t].new_requirement]
    /\ txs' = [txs EXCEPT ![t].pc = "write_timestamp"]
    /\ UNCHANGED <<authority_token_account, events, clock, last>>

\* state.last_update = Clock::get()?.unix_timestamp
WriteTimestamp(t) ==
    /\ txs[t].pc = "write_timestamp"
    /\ state' = [state EXCEPT !.last_update = clock]
    /\ txs' = [txs EXCEPT ![t].pc = "emit"]
    /\ UNCHANGED <<authority_token_account, events, clock, last>>

\* emit!(BalanceRequirementUpdated { .. })
Emit(t) ==
    /\ txs[t].pc = "emit"
    /\ events' = Append(events, [new_requirement |-> txs[t].new_requirement,
                                 price |-> txs[t].price,
                                 timestamp |-> state.last_update])
    /\ txs' = [txs EXCEPT ![t].pc = "done"]
    /\ UNCHANGED <<state, authority_token_account, clock, last>>

\* verify_balance: the accounts are locked and the VerifyBalance constraints
\* checked
BeginVerify(t, token_account) ==
    LET checked == VerifyConstraints(state, token_account)
    IN  /\ txs[t].pc = "idle"
        /\ ReadLockFree(t)
        /\ txs' = [txs EXCEPT ![t] =
                       [IdleTx EXCEPT !.op = "verify", !.account = token_account,
                                      !.result = checked,
                                      !.pc = IF checked = "Ok" THEN "read" ELSE "done"]]
        /\ UNCHANGED <<state, authority_token_account, events, clock, last>>

\* the handler reads the state account and compares
ReadState(t) ==
    /\ txs[t].pc = "read"
    /\ txs' = [txs EXCEPT ![t].seen = [current_requirement |-> state.current_requirement,
                                       last_update |-> state.last_update],
                          ![t].value = verify_balance(state, txs[t].account),
                          ![t].pc = "done"]
    /\ UNCHANGED <<state, authority_token_account, events, clock, last>>

\* the transaction ends and its locks are released
EndTx(t) ==
    /\ txs[t].pc = "done"
    /\ txs' = [txs EXCEPT ![t] = IdleTx]
    /\ UNCHANGED <<state, authority_token_account, events, clock, last>>

NextTx ==
    \/ \E caller \in Identities, mint \in NewMintKeys, initial_supply \in Supplies,
          mint_ok \in BOOLEAN, mint_to_ok \in BOOLEAN :
           TxInitialize(caller, mint, initial_supply, mint_ok, mint_to_ok)
    \/ \E t \in Tx, caller \in Identities, feed \in TxFeeds : BeginUpdate(t, caller, feed)
    \/ \E t \in Tx : FetchPrice(t)
    \/ \E t \in Tx : Compute(t)
    \/ \E t \in Tx : WriteRequirement(t)
    \/ \E t \in Tx : WriteTimestamp(t)
    \/ \E t \in Tx : Emit(t)
    \/ \E t \in Tx, token_account \in TxTokenAccounts : BeginVerify(t, token_account)
    \/ \E t \in Tx : ReadState(t)
    \/ \E t \in Tx : EndTx(t)
    \/ Tick

SpecTx == Init /\ [][NextTx]_vars

(***************************************************************************)
(* The claims.  last.pre, last.pre_events, last.pre_token_account and      *)
(* last.now are the accounts, the log and the clock the instruction just   *)
(* executed ran on; state, events and authority_token_account are what it  *)
(* left.                                                                   *)
(***************************************************************************)
\* update_balance_requirement was just called by the recorded authority on an
\* existing state, and the oracle reported the price last.feed.price.val
AuthorizedUpdate ==
    /\ last.op = "update"
    /\ last.pre.discriminator
    /\ last.caller = last.pre.authority
    /\ last.feed.valid
    /\ last.feed.price.some

\* the instruction just executed wrote no account and logged no event
NothingWritten ==
    /\ state = last.pre
    /\ events = last.pre_events
    /\ authority_token_account = last.pre_token_account

\* candidate = max(minTokens, min(maxTokens, floor(targetUsdMicros / P))), P > 0
Candidate(st, P) ==
    LET raw == st.target_usd_value \div P
    IN  IF raw < st.min_tokens THEN st.min_tokens
        ELSE IF raw > st.max_tokens THEN st.max_tokens
        ELSE raw

\* changePct = ((candidate - current) * 100) / current, signed and truncating
ChangePct(candidate, current) ==
    IF candidate >= current
    THEN ((candidate - current) * 100) \div current
    ELSE 0 - (((current - candidate) * 100) \div current)

\* the value of a u64 below 2^31
U64Value(w) == w[3] * Word + w[4]

\* C1: whenever the state exists, minTokens <= currentRequirement <= maxTokens,
\* that is 100 <= currentRequirement <= 10000, and every committed update
\* whose raw value targetUsdMicros / P was below 100 committed 100 and whose
\* raw value was above 10000 committed 10000.
C1_Bounds ==
    state.discriminator =>
        /\ state.min_tokens <= state.current_requirement
        /\ state.current_requirement <= state.max_tokens
        /\ 100 <= state.current_requirement
        /\ state.current_requirement <= 10000
        /\ \A i \in 1..Len(events) :
               LET e == events[i]
               IN  (FitsInt(e.price) /\ U64Value(e.price) > 0) =>
                       /\ 15000000 \div U64Value(e.price) < 100 => e.new_requirement = 100
                       /\ 15000000 \div U64Value(e.price) > 10000 => e.new_requirement = 10000

\* C1 witness: one update was clamped down to 10000 (P = 1) and another
\* clamped up to 100 (P = 1000000).
C1_Witness ==
    /\ state.discriminator
    /\ \E i, j \in 1..Len(events) :
           /\ events[i].price = ToU64(1) /\ events[i].new_requirement = 10000
           /\ events[j].price = ToU64(1000000) /\ events[j].new_requirement = 100

\* C2: a verify_balance that returned, returned true if and only if the
\* account's balance is at least the stored currentRequirement.
C2_VerifierCorrect ==
    (last.op = "verify" /\ last.result = "Ok") =>
        (last.value <=> last.account.amount >= last.pre.current_requirement)

\* C2 witness: verify_balance returned true on a balance equal to a
\* requirement that an update moved away from its seed, some time after
\* that update.
C2_Witness ==
    /\ last.op = "verify" /\ last.result = "Ok" /\ last.value
    /\ last.account.amount = state.current_requirement
    /\ state.current_requirement # 750
    /\ last.now > state.last_update

C4_Debounce ==
    (AuthorizedUpdate /\ last.feed.price.val > 0) =>
        LET P == last.feed.price.val
            candidate == Candidate(last.pre, P)
            changePct == ChangePct(candidate, last.pre.current_requirement)
        IN  (changePct = 0) => (last.result = "Ok" /\ NothingWritten)

\* C4 witness: an update whose candidate (100) differs from the stored
\* requirement (101) by less than 1% succeeded a while after the last commit
\* and left requirement and timestamp alone.
C4_Witness ==
    /\ AuthorizedUpdate /\ last.result = "Ok"
    /\ last.feed.price = Some(1000000)
    /\ state.current_requirement = 101
    /\ Len(events) = 1 /\ events[1].new_requirement = 101
    /\ state.last_update = events[1].timestamp
    /\ last.now > state.last_update

\* C5: an update by the authority with price 0 fails with MathOverflow,
\* writes no account and logs no event.
C5_ZeroPrice ==
    (AuthorizedUpdate /\ last.feed.price.val = 0) =>
        (last.result = "MathOverflow" /\ NothingWritten)

\* C5 witness: an update with price 0 failed with MathOverflow on a state
\* that earlier updates had moved.
C5_Witness ==
    /\ AuthorizedUpdate /\ last.result = "MathOverflow"
    /\ last.feed.price = Some(0)
    /\ state.current_requirement # 750
    /\ Len(events) > 0

\* C6: an update by the authority on a feed that reports no price fails
\* with NoPriceFound, writes no account and logs no event.
C6_NoPrice ==
    (/\ last.op = "update"
     /\ last.pre.discriminator
     /\ last.caller = last.pre.authority
     /\ last.feed.valid
     /\ ~last.feed.price.some) =>
        (last.result = "NoPriceFound" /\ NothingWritten)

\* C6 witness: an update failed with NoPriceFound on a state that earlier
\* updates had moved.
C6_Witness ==
    /\ last.op = "update" /\ last.result = "NoPriceFound"
    /\ last.caller = state.authority
    /\ state.current_requirement # 750
    /\ Len(events) > 0

\* C7: lastUpdateTimestamp never decreases from one state to the next.
C7_MonotonicTimestamp == [][state'.last_update >= state.last_update]_vars

\* C7 witness: two updates committed at different times.
C7_Witness ==
    /\ Len(events) = 2
    /\ events[1].timestamp < events[2].timestamp
    /\ state.last_update = events[2].timestamp

\* C8: initialize succeeds only when no state account exists; on an existing
\* state it fails, writes no account and logs no event.
C8_CreateOnce ==
    last.op = "initialize" =>
        /\ last.result = "Ok" => ~last.pre.discriminator
        /\ last.pre.discriminator =>
               (last.result = "AccountAlreadyInUse" /\ NothingWritten)

\* C8 witness: an initialize failed on a state whose requirement updates had
\* moved away from 750.
C8_Witness ==
    /\ last.op = "initialize" /\ last.result = "AccountAlreadyInUse"
    /\ state.discriminator
    /\ state.current_requirement # 750

\* C9: right after a successful initialize(initial_supply) by A, authority = A,
\* the asset is the new mint, the policy is 15000000 / 100 / 10000, the
\* requirement is 750, A's token account holds initial_supply and no event
\* has been logged.
C9_InitialState ==
    (last.op = "initialize" /\ last.result = "Ok") =>
        /\ state.discriminator
        /\ state.authority = last.caller
        /\ state.mint = last.account.mint
        /\ state.target_usd_value = 15000000
        /\ state.min_tokens = 100
        /\ state.max_tokens = 10000
        /\ state.current_requirement = 750
        /\ authority_token_account.exists
        /\ authority_token_account.owner = last.caller
        /\ authority_token_account.mint = last.account.mint
        /\ authority_token_account.amount = last.supply
        /\ events = <<>>

\* C9 witness: B initialized with a supply of 1000.
C9_Witness ==
    /\ last.op = "initialize" /\ last.result = "Ok"
    /\ last.caller = "B" /\ last.account.mint \in NewMintKeys /\ last.supply = 1000
    /\ state.authority = "B"
    /\ authority_token_account.amount = 1000

\* C10: an update by a caller other than the recorded authority fails,
\* writes no account and logs no event, whatever the feed reports.
C10_AuthorityGuard ==
    (last.op = "update" /\ last.pre.discriminator /\ last.caller # last.pre.authority) =>
        (last.result = "ConstraintHasOne" /\ NothingWritten)

\* C10 witness: an update by another caller, with a price that would have
\* committed 1500, was refused.
C10_Witness ==
    /\ last.op = "update" /\ last.result = "ConstraintHasOne"
    /\ last.caller # state.authority
    /\ last.feed.price = Some(10000)
    /\ state.current_requirement = 750

\* C11: verify_balance on a token account of another asset than state.mint
\* fails (the constraint error) and returns neither true nor false, whatever
\* the balance; on a token account of state.mint and an existing state it
\* does not fail.
C11_AssetMismatch ==
    (last.op = "verify" /\ last.pre.discriminator) =>
        /\ last.account.mint # last.pre.mint =>
               (last.result = "ConstraintRaw" /\ ~last.value)
        /\ last.account.mint = last.pre.mint => last.result = "Ok"

\* C11 witness: a token account of the mint m2, with a balance that meets
\* the requirement, was refused by a state that governs m1.
C11_Witness ==
    /\ last.op = "verify" /\ last.result = "ConstraintRaw"
    /\ state.discriminator /\ state.mint = "m1"
    /\ last.account.mint = "m2"
    /\ last.account.amount >= state.current_requirement

\* C13: in an update call the timestamp and the requirement move together:
\* the timestamp changes only if the requirement changes to another value,
\* and a requirement that changes comes with the timestamp set to now.
C13_MoveTogether ==
    last.op = "update" =>
        /\ state.last_update # last.pre.last_update =>
               state.current_requirement # last.pre.current_requirement
        /\ state.current_requirement # last.pre.current_requirement =>
               state.last_update = last.now
        /\ state.current_requirement = last.pre.current_requirement =>
               state.last_update = last.pre.last_update

\* C13 witness: a successful update by the authority, at a later time than
\* the last commit, whose candidate 100 differs from the stored 101, left
\* both the requirement and the timestamp.
C13_Witness ==
    /\ AuthorizedUpdate /\ last.result = "Ok"
    /\ last.feed.price = Some(-1)
    /\ last.pre.current_requirement = 101
    /\ state.current_requirement = 101
    /\ last.now > last.pre.last_update
    /\ state.last_update = last.pre.last_update

\* C14: an event is appended exactly when an update commits a change, with
\* newRequirement the new currentRequirement, price the oracle price of the
\* call and timestamp the new lastUpdateTimestamp; every other call appends
\* nothing.
C14_EventsMatchCommits ==
    /\ last.op \in {"initialize", "verify"} => events = last.pre_events
    /\ last.op = "update" =>
           IF state # last.pre
           THEN /\ last.result = "Ok"
                /\ Len(events) = Len(last.pre_events) + 1
                /\ SubSeq(events, 1, Len(last.pre_events)) = last.pre_events
                /\ LET e == events[Len(events)]
                   IN  /\ e.new_requirement = state.current_requirement
                       /\ e.timestamp = state.last_update
                       /\ last.feed.price.val >= 0 =>
                              (FitsInt(e.price) /\ U64Value(e.price) = last.feed.price.val)
           ELSE events = last.pre_events

\* C14 witness: the second commit appended the second event, with the price
\* 148514 of the call, the requirement 101 and the time of the call.
C14_Witness ==
    /\ AuthorizedUpdate /\ last.result = "Ok"
    /\ last.feed.price = Some(148514)
    /\ Len(last.pre_events) = 1 /\ Len(events) = 2
    /\ events[2] = [new_requirement |-> 101, price |-> <<0, 0, 2, 17442>>,
                    timestamp |-> last.now]
    /\ last.now > events[1].timestamp

\* C15: verify_balance, whether it returns true or false or fails, writes no
\* account and logs no event.
C15_VerifierReadOnly ==
    last.op = "verify" => NothingWritten

\* C15 witness: verify_balance returned false on a state that updates had
\* moved, some time after the last of them.
C15_Witness ==
    /\ last.op = "verify" /\ last.result = "Ok" /\ ~last.value
    /\ Len(events) > 0
    /\ state.current_requirement = 1500
    /\ last.now > state.last_update

\* C16: once the state exists no call changes authority, mint,
\* target_usd_value, min_tokens or max_tokens, and a call that changes
\* current_requirement or last_update is an update_balance_requirement.
C16_PolicyImmutable ==
    (last.op # "none" /\ last.pre.discriminator) =>
        /\ state.discriminator
        /\ state.authority = last.pre.authority
        /\ state.mint = last.pre.mint
        /\ state.target_usd_value = last.pre.target_usd_value
        /\ state.min_tokens = last.pre.min_tokens
        /\ state.max_tokens = last.pre.max_tokens
        /\ (\/ state.current_requirement # last.pre.current_requirement
            \/ state.last_update # last.pre.last_update) => last.op = "update"

\* C16 witness: a second update committed, at a later time, and the policy
\* fields are those initialize wrote.
C16_Witness ==
    /\ last.op = "update" /\ last.result = "Ok"
    /\ Len(events) = 2
    /\ state.current_requirement # last.pre.current_requirement
    /\ state.last_update # last.pre.last_update
    /\ state.authority = "B" /\ state.mint = "m1"
    /\ state.target_usd_value = 15000000
    /\ state.min_tokens = 100 /\ state.max_tokens = 10000

C19_Idempotent ==
    /\ state.discriminator =>
           \A p \in Prices, now2 \in clock..MaxClock :
               p > 0 =>
                   LET feed == [valid |-> TRUE, price |-> Some(p)]
                       first == update_balance_requirement(state, feed, clock, events)
                       second == update_balance_requirement(first.state, feed, now2,
                                                            first.events)
                   IN  first.result = "Ok" =>
                           /\ second.result = "Ok"
                           /\ second.state = first.state
                           /\ second.events = first.events
    /\ (/\ AuthorizedUpdate
        /\ last.feed.price.val > 0
        /\ last.pre_events # <<>>
        /\ last.pre_events[Len(last.pre_events)].price = ToU64(last.feed.price.val)) =>
           (last.result = "Ok" /\ NothingWritten)

\* C19 witness: the price 10000 committed 1500, the clock advanced, and a
\* second update with 10000 succeeded and wrote nothing.
C19_Witness ==
    /\ AuthorizedUpdate /\ last.result = "Ok"
    /\ last.feed.price = Some(10000)
    /\ Len(events) = 1
    /\ events[1].price = ToU64(10000) /\ events[1].new_requirement = 1500
    /\ last.pre_events = events
    /\ state.current_requirement = 1500
    /\ last.now > state.last_update

\* C20: an update by the authority with a negative price p does not fail; if
\* the stored requirement is more than 1% above minTokens it commits
\* minTokens and logs an event whose price is p mod 2^64, otherwise the
\* candidate it leaves unwritten is minTokens too.
C20_NegativePrice ==
    (AuthorizedUpdate /\ last.feed.price.val < 0) =>
        /\ last.result = "Ok"
        /\ state.current_requirement \in
               {last.pre.current_requirement, last.pre.min_tokens}
        /\ last.pre.current_requirement * 100 > last.pre.min_tokens * 101 =>
               /\ state.current_requirement = last.pre.min_tokens
               /\ state.last_update = last.now
               /\ Len(events) = Len(last.pre_events) + 1
               /\ LET e == events[Len(events)]
                  IN  /\ e.new_requirement = last.pre.min_tokens
                      /\ e.price[1] = 65535 /\ e.price[2] = 65535
                      /\ (65535 - e.price[3]) * 65536 + (65535 - e.price[4])
                             = (0 - last.feed.price.val) - 1

\* C20 witness: the price -1 moved the requirement from 1500 to 100 and the
\* event carries 2^64 - 1.
C20_Witness ==
    /\ AuthorizedUpdate /\ last.result = "Ok"
    /\ last.feed.price = Some(-1)
    /\ last.pre.current_requirement = 1500
    /\ state.current_requirement = 100
    /\ events[Len(events)].price = <<65535, 65535, 65535, 65535>>

\* the transactions between the load of the state account and their end
Updating == {t \in Tx : txs[t].op = "update" /\ txs[t].pc # "idle"}

\* the update transactions that have written one field and not yet the other
MidWrite == {t \in Tx : txs[t].pc = "write_timestamp"}

\* the complete states of the requirement: the one initialize left and the
\* ones the logged commits left
CompleteStates ==
    {[current_requirement |-> 750, last_update |-> 0]}
        \cup {[current_requirement |-> events[i].new_requirement,
               last_update |-> events[i].timestamp] : i \in 1..Len(events)}

====
